---------------------------- MODULE Spec2Model ----------------------------
(***************************************************************************)
(* Model of mkspritesheet.py: the Rect value type, the Region free-space   *)
(* tree and the sizing / placement loop of main().                         *)
(*                                                                         *)
(* Encoding of Python values:                                              *)
(*   Rect(x1, y1, x2, y2)   the tuple <<x1, y1, x2, y2>>                   *)
(*   None                   the empty tuple <<>>                           *)
(*   an optional list       <<>> for None, <<list>> for a list             *)
(*   Region                 [rect |-> Rect, children |-> optional list]    *)
(*   ImageInfo              [size, actual_size, area, rect]               *)
(***************************************************************************)
EXTENDS Integers, Sequences, FiniteSets, TLC

VARIABLES
    pc,          \* position of main(): start, size_w, size_area, attempt,
                 \* place, check, output, done, error (or region: see SpecRegion)
    images,      \* the list of ImageInfo
    max_W,       \* main: max_W
    total_area,  \* main: total_area
    output_W,    \* main: output_W
    output_H,    \* main: output_H
    region,      \* main: region (the Region root of the current attempt)
    incomplete,  \* main: incomplete
    idx,         \* position of the `for im in images` loop (1-based)
    transposed,  \* output_json[...]["transposed"], one flag per image
    attempts,    \* history: the canvas <<W, H>> of every attempt started
    removed      \* SpecRegion: the arguments of the remove_rect calls so far

vars == <<pc, images, max_W, total_area, output_W, output_H, region,
          incomplete, idx, transposed, attempts, removed>>

---------------------------------------------------------------------------
(* Bounds *)

\* largest width / height of an image's opaque bounding box
MaxDim == 3

\* largest number of input images
MaxImages == 3

\* largest canvas side the model lets the packer grow to
MaxSide == 512

\* largest number of input images of the specification SpecLegal
MaxLegalImages == 2

\* largest number of input images of the specification FairSpec
MaxFairImages == 2

\* side of the square in which the leaf of the specification SpecLeaf lies
LeafSide == 3

\* side of the largest root rect of the Region-only specification
RegionSide == 2

\* number of remove_rect calls in the Region-only specification
MaxRemoves == 2

---------------------------------------------------------------------------
(* Python values *)

None == <<>>

Some(list) == <<list>>

Max(a, b) == IF a >= b THEN a ELSE b

Min(a, b) == IF a <= b THEN a ELSE b

---------------------------------------------------------------------------
(* class Rect *)

Rect(x1, y1, x2, y2) == <<x1, y1, x2, y2>>

overlaps(self, other) ==
    /\ self[3] > other[1]
    /\ other[3] > self[1]
    /\ self[4] > other[2]
    /\ other[4] > self[2]

size(self) == <<self[3] - self[1], self[4] - self[2]>>

\* mutant of fits: the height is not compared
fits_width_only(self, W, H) == W <= self[3] - self[1]

fits(self, W, H) ==
    /\ W <= self[3] - self[1]
    /\ H <= self[4] - self[2]

\* mutant of split_parts: the right strip starts at other.x1, not other.x2
split_parts_right_from_x1(self, other) ==
    (IF other[2] > self[2]
        THEN <<Rect(self[1], self[2], self[3], other[2])>> ELSE <<>>)
    \o (IF other[1] > self[1]
        THEN <<Rect(self[1], self[2], other[1], self[4])>> ELSE <<>>)
    \o (IF other[3] < self[3]
        THEN <<Rect(other[1], self[2], self[3], self[4])>> ELSE <<>>)
    \o (IF other[4] < self[4]
        THEN <<Rect(self[1], other[4], self[3], self[4])>> ELSE <<>>)

\* mutant of split_parts: the test for the strip below is inverted
split_parts_no_strip_below(self, other) ==
    (IF other[2] > self[2]
        THEN <<Rect(self[1], self[2], self[3], other[2])>> ELSE <<>>)
    \o (IF other[1] > self[1]
        THEN <<Rect(self[1], self[2], other[1], self[4])>> ELSE <<>>)
    \o (IF other[3] < self[3]
        THEN <<Rect(other[3], self[2], self[3], self[4])>> ELSE <<>>)
    \o (IF other[4] > self[4]
        THEN <<Rect(self[1], other[4], self[3], self[4])>> ELSE <<>>)

\* mutant of split_parts: a guillotine split, the strips left and right
\* cut down to the rows between the strip above and the strip below
split_parts_guillotine(self, other) ==
    (IF other[2] > self[2]
        THEN <<Rect(self[1], self[2], self[3], other[2])>> ELSE <<>>)
    \o (IF other[1] > self[1]
        THEN <<Rect(self[1], Max(self[2], other[2]),
                    other[1], Min(self[4], other[4]))>> ELSE <<>>)
    \o (IF other[3] < self[3]
        THEN <<Rect(other[3], Max(self[2], other[2]),
                    self[3], Min(self[4], other[4]))>> ELSE <<>>)
    \o (IF other[4] < self[4]
        THEN <<Rect(self[1], other[4], self[3], self[4])>> ELSE <<>>)

\* the four conditional appends of Rect.split, in order
split_parts(self, other) ==
    (IF other[2] > self[2]
        THEN <<Rect(self[1], self[2], self[3], other[2])>> ELSE <<>>)
    \o (IF other[1] > self[1]
        THEN <<Rect(self[1], self[2], other[1], self[4])>> ELSE <<>>)
    \o (IF other[3] < self[3]
        THEN <<Rect(other[3], self[2], self[3], self[4])>> ELSE <<>>)
    \o (IF other[4] < self[4]
        THEN <<Rect(self[1], other[4], self[3], self[4])>> ELSE <<>>)

split(self, other) ==
    IF ~overlaps(self, other) THEN None
    ELSE Some(split_parts(self, other))

---------------------------------------------------------------------------
(* class Region *)

Region(rect) == [rect |-> rect, children |-> None]

RECURSIVE find_fit(_, _, _)
RECURSIVE find_fit_children(_, _, _, _)

\* mutant of find_fit_children: the result of the last child that succeeds
find_fit_children_last_fit(children, i, W, H) ==
    IF i > Len(children) THEN None
    ELSE LET later == find_fit_children(children, i + 1, W, H)
         IN  IF later # None THEN later
             ELSE find_fit(children[i], W, H)

\* the loop `for child in children` of find_fit, from child i on
find_fit_children(children, i, W, H) ==
    IF i > Len(children) THEN None
    ELSE LET result == find_fit(children[i], W, H)
         IN  IF result # None THEN result
             ELSE find_fit_children(children, i + 1, W, H)

\* mutant of find_fit: the pruning test also rejects a node that (W, H)
\* fits exactly
find_fit_prunes_exact_fit(self, W, H) ==
    IF ~fits(self.rect, W + 1, H + 1) THEN None
    ELSE IF self.children = None
         THEN Rect(self.rect[1], self.rect[2],
                   self.rect[1] + W, self.rect[2] + H)
         ELSE find_fit_children(self.children[1], 1, W, H)

find_fit(self, W, H) ==
    IF ~fits(self.rect, W, H) THEN None
    ELSE IF self.children = None
         THEN Rect(self.rect[1], self.rect[2],
                   self.rect[1] + W, self.rect[2] + H)
         ELSE find_fit_children(self.children[1], 1, W, H)

is_empty(self) == self.children # None /\ self.children[1] = <<>>

RECURSIVE remove_rect(_, _)

\* mutant of remove_rect: an internal node passes the rect on to the first
\* child it overlaps only, as if the children were disjoint
remove_rect_first_overlap_only(self, rect) ==
    IF self.children = None
    THEN LET splitted == split(self.rect, rect)
         IN  IF splitted # None
             THEN [self EXCEPT !.children =
                      Some([i \in 1..Len(splitted[1]) |->
                               Region(splitted[1][i])])]
             ELSE self
    ELSE IF overlaps(self.rect, rect)
         THEN LET children == self.children[1]
                  hit == {i \in 1..Len(children) :
                             overlaps(children[i].rect, rect)}
                  after == [i \in 1..Len(children) |->
                               IF i \in hit /\ \A j \in hit : i <= j
                               THEN remove_rect(children[i], rect)
                               ELSE children[i]]
              IN  [self EXCEPT !.children =
                      Some(SelectSeq(after, LAMBDA child : ~is_empty(child)))]
         ELSE self

\* mutant of remove_rect: the children that have become empty are kept
remove_rect_keeps_empty(self, rect) ==
    IF self.children = None
    THEN LET splitted == split(self.rect, rect)
         IN  IF splitted # None
             THEN [self EXCEPT !.children =
                      Some([i \in 1..Len(splitted[1]) |->
                               Region(splitted[1][i])])]
             ELSE self
    ELSE IF overlaps(self.rect, rect)
         THEN LET children == self.children[1]
              IN  [self EXCEPT !.children =
                      Some([i \in 1..Len(children) |->
                               remove_rect(children[i], rect)])]
         ELSE self

remove_rect(self, rect) ==
    IF self.children = None
    THEN LET splitted == split(self.rect, rect)
         IN  IF splitted # None
             THEN [self EXCEPT !.children =
                      Some([i \in 1..Len(splitted[1]) |->
                               Region(splitted[1][i])])]
             ELSE self
    ELSE IF overlaps(self.rect, rect)
         THEN LET children == self.children[1]
                  after == [i \in 1..Len(children) |->
                               remove_rect(children[i], rect)]
              IN  [self EXCEPT !.children =
                      Some(SelectSeq(after, LAMBDA child : ~is_empty(child)))]
         ELSE self

---------------------------------------------------------------------------
(* class ImageInfo *)

\* ImageInfo.__init__ for an image whose clip box is W wide and H high
ImageInfo(W, H) ==
    [size        |-> <<W, H>>,
     actual_size |-> <<Max(W, H), Min(W, H)>>,
     area        |-> W * H,
     rect        |-> None]

---------------------------------------------------------------------------
(* main: sorting and measuring *)

\* the sort key operator.attrgetter('area', 'actual_size'), compared as
\* Python compares the tuples (area, (longer, shorter))
key_less(a, b) ==
    \/ a.area < b.area
    \/ /\ a.area = b.area
       /\ \/ a.actual_size[1] < b.actual_size[1]
          \/ /\ a.actual_size[1] = b.actual_size[1]
             /\ a.actual_size[2] < b.actual_size[2]

RECURSIVE insert_sorted(_, _)

\* insert im behind every element whose key is not less than im's
insert_sorted(im, sorted) ==
    IF sorted = <<>> THEN <<im>>
    ELSE IF key_less(Head(sorted), im) THEN <<im>> \o sorted
    ELSE <<Head(sorted)>> \o insert_sorted(im, Tail(sorted))

RECURSIVE sort_images(_, _)

\* images.sort(key=..., reverse=True): descending, equal keys keep their order
sort_images(list, n) ==
    IF n = 0 THEN <<>>
    ELSE insert_sorted(list[n], sort_images(list, n - 1))

RECURSIVE max_actual_W(_, _)

max_actual_W(list, n) ==
    IF n = 1 THEN list[1].actual_size[1]
    ELSE Max(list[n].actual_size[1], max_actual_W(list, n - 1))

RECURSIVE sum_area(_, _)

sum_area(list, n) ==
    IF n = 0 THEN 0 ELSE list[n].area + sum_area(list, n - 1)

\* mutant of grow_W: on a tie the height is doubled
grow_W_strict(W, H) == W < H

\* the growth rule used by the sizing loop and by the retry loop
grow_W(W, H) == W <= H

\* mutant of grown: += 2 written for *= 2
grown_plus_2(W, H) == IF grow_W(W, H) THEN <<W + 2, H>> ELSE <<W, H + 2>>

\* mutant of grown: the canvas is not grown
grown_not(W, H) == <<W, H>>

\* mutant of grown: a growth step doubles both dimensions
grown_both(W, H) == <<W * 2, H * 2>>

\* mutant of grown: the dimension that the rule does not pick is doubled
grown_other(W, H) == IF grow_W(W, H) THEN <<W, H * 2>> ELSE <<W * 2, H>>

grown(W, H) == IF grow_W(W, H) THEN <<W * 2, H>> ELSE <<W, H * 2>>

---------------------------------------------------------------------------
(* main: lines 142-148, the rect chosen for one image on the current tree *)

\* mutant of choose_rect: no special case for the size (0, 0)
choose_rect_always_find_fit(root, im) ==
    LET rect == find_fit(root, im.actual_size[1], im.actual_size[2])
    IN  IF rect = None
        THEN find_fit(root, im.actual_size[2], im.actual_size[1])
        ELSE rect

\* mutant of choose_rect: the swapped orientation is tried first
choose_rect_swapped_first(root, im) ==
    LET W == im.actual_size[1]
        H == im.actual_size[2]
    IN  IF W = 0 /\ H = 0 THEN Rect(0, 0, 0, 0)
        ELSE LET rect == find_fit(root, H, W)
             IN  IF rect = None THEN find_fit(root, W, H) ELSE rect

choose_rect(root, im) ==
    LET W == im.actual_size[1]
        H == im.actual_size[2]
    IN  IF W = 0 /\ H = 0 THEN Rect(0, 0, 0, 0)
        ELSE LET rect == find_fit(root, W, H)
             IN  IF rect = None THEN find_fit(root, H, W) ELSE rect

\* mutant of is_transposed: compares with actual_size, not with im.size
is_transposed_vs_actual_size(im) == size(im.rect) # im.actual_size

\* lines 177-181: whether the image is transposed before it is pasted
is_transposed(im) == size(im.rect) # im.size

---------------------------------------------------------------------------
(* main: lines 139-155 as a function of the sorted list and the canvas *)

RECURSIVE attempt_from(_, _, _, _)

\* the for loop from image i on, with the rects assigned so far
attempt_from(root, list, i, rects) ==
    IF i > Len(list) THEN [complete |-> TRUE, rects |-> rects]
    ELSE LET rect == choose_rect(root, list[i])
         IN  IF rect = None THEN [complete |-> FALSE, rects |-> rects]
             ELSE attempt_from(remove_rect(root, rect), list, i + 1,
                               Append(rects, rect))

\* one attempt on a fresh Region over the canvas W x H
FreshAttempt(list, W, H) ==
    attempt_from(Region(Rect(0, 0, W, H)), list, 1, <<>>)

---------------------------------------------------------------------------
(* Inputs *)

\* clip boxes compute_clip_rect can return for dimensions in dims: an image
\* with no opaque pixel has the box (0, 0, 0, 0), any other a box with
\* positive width and height
ClipBoxes(dims) == {<<0, 0>>} \cup ((dims \ {0}) \X (dims \ {0}))

\* every box with non-negative width and height
LegalBoxes(dims) == dims \X dims

Lists(boxes, n) == UNION {[1..k -> boxes] : k \in 0..n}

ImageList(l) == [i \in 1..Len(l) |-> ImageInfo(l[i][1], l[i][2])]

\* the dimensions of the worked examples
ScenarioDims == {50, 100}

InitWith(lists) ==
    /\ pc = "start"
    /\ images \in {ImageList(l) : l \in lists}
    /\ max_W = 0
    /\ total_area = 0
    /\ output_W = 0
    /\ output_H = 0
    /\ region = Region(Rect(0, 0, 0, 0))
    /\ incomplete = FALSE
    /\ idx = 0
    /\ transposed = <<>>
    /\ attempts = <<>>
    /\ removed = <<>>

Init == InitWith(Lists(ClipBoxes(0..MaxDim), MaxImages))

InitLegal == InitWith(Lists(LegalBoxes(0..MaxDim), MaxLegalImages))

InitScenario == InitWith(Lists(ClipBoxes(ScenarioDims), MaxImages))

InitFair == InitWith(Lists(ClipBoxes(0..MaxDim), MaxFairImages))

---------------------------------------------------------------------------
(* main, one action per step *)

\* lines 125-129 with a non-empty list
Measure ==
    /\ pc = "start"
    /\ images # <<>>
    /\ images' = sort_images(images, Len(images))
    /\ max_W' = max_actual_W(images', Len(images'))
    /\ total_area' = sum_area(images', Len(images'))
    /\ output_W' = 1
    /\ output_H' = 1
    /\ pc' = "size_w"
    /\ UNCHANGED <<region, incomplete, idx, transposed, attempts, removed>>

\* mutant of MeasureFails: the maximum of no dimensions is taken to be 0
\* and the sizing goes on from the canvas (1, 1)
MeasureFails_max_defaults_to_0 ==
    /\ pc = "start"
    /\ images = <<>>
    /\ max_W' = 0
    /\ total_area' = 0
    /\ output_W' = 1
    /\ output_H' = 1
    /\ pc' = "size_w"
    /\ UNCHANGED <<images, region, incomplete, idx, transposed, attempts,
                   removed>>

\* lines 125-126 with an empty list: max() raises ValueError
MeasureFails ==
    /\ pc = "start"
    /\ images = <<>>
    /\ pc' = "error"
    /\ UNCHANGED <<images, max_W, total_area, output_W, output_H, region,
                   incomplete, idx, transposed, attempts, removed>>

\* lines 130-131, one iteration
GrowToMaxW ==
    /\ pc = "size_w"
    /\ output_W < max_W
    /\ output_W * 2 <= MaxSide
    /\ output_W' = output_W * 2
    /\ UNCHANGED <<pc, images, max_W, total_area, output_H, region,
                   incomplete, idx, transposed, attempts, removed>>

\* line 130, the loop ends
EndGrowToMaxW ==
    /\ pc = "size_w"
    /\ ~(output_W < max_W)
    /\ pc' = "size_area"
    /\ UNCHANGED <<images, max_W, total_area, output_W, output_H, region,
                   incomplete, idx, transposed, attempts, removed>>

\* lines 132-136, one iteration
GrowToArea ==
    /\ pc = "size_area"
    /\ output_W * output_H < total_area
    /\ grown(output_W, output_H)[1] <= MaxSide
    /\ grown(output_W, output_H)[2] <= MaxSide
    /\ output_W' = grown(output_W, output_H)[1]
    /\ output_H' = grown(output_W, output_H)[2]
    /\ UNCHANGED <<pc, images, max_W, total_area, region, incomplete, idx,
                   transposed, attempts, removed>>

\* line 132, the loop ends
EndGrowToArea ==
    /\ pc = "size_area"
    /\ ~(output_W * output_H < total_area)
    /\ pc' = "attempt"
    /\ UNCHANGED <<images, max_W, total_area, output_W, output_H, region,
                   incomplete, idx, transposed, attempts, removed>>

\* lines 138-140: a new attempt; im.rect of every image is left as it is
NewAttempt ==
    /\ pc = "attempt"
    /\ region' = Region(Rect(0, 0, output_W, output_H))
    /\ incomplete' = FALSE
    /\ idx' = 1
    /\ attempts' = Append(attempts, <<output_W, output_H>>)
    /\ pc' = "place"
    /\ UNCHANGED <<images, max_W, total_area, output_W, output_H,
                   transposed, removed>>

\* mutant of Assign: im.rect is set only while it is still None, so a rect
\* assigned in an earlier attempt is kept
Assign_keeps_old_rect(rect) ==
    /\ images' = [images EXCEPT ![idx].rect =
                     IF images[idx].rect = None THEN rect
                     ELSE images[idx].rect]
    /\ region' = remove_rect(region, rect)
    /\ idx' = idx + 1
    /\ UNCHANGED <<pc, max_W, total_area, output_W, output_H, incomplete,
                   transposed, attempts, removed>>

\* lines 149-151 for the image at idx and the rect chosen for it
Assign(rect) ==
    /\ images' = [images EXCEPT ![idx].rect = rect]
    /\ region' = remove_rect(region, rect)
    /\ idx' = idx + 1
    /\ UNCHANGED <<pc, max_W, total_area, output_W, output_H, incomplete,
                   transposed, attempts, removed>>

\* lines 142-144, 149-151: an image of size (0, 0)
PlaceEmpty ==
    /\ pc = "place"
    /\ idx <= Len(images)
    /\ images[idx].actual_size = <<0, 0>>
    /\ choose_rect(region, images[idx]) # None
    /\ Assign(choose_rect(region, images[idx]))

\* lines 142-143, 146-147, 149-151: find_fit(W, H) succeeds
PlaceFit ==
    /\ pc = "place"
    /\ idx <= Len(images)
    /\ images[idx].actual_size # <<0, 0>>
    /\ find_fit(region, images[idx].actual_size[1],
                images[idx].actual_size[2]) # None
    /\ Assign(choose_rect(region, images[idx]))

\* lines 142-143, 146-151: find_fit(W, H) fails and find_fit(H, W) succeeds
PlaceSwapped ==
    /\ pc = "place"
    /\ idx <= Len(images)
    /\ images[idx].actual_size # <<0, 0>>
    /\ find_fit(region, images[idx].actual_size[1],
                images[idx].actual_size[2]) = None
    /\ choose_rect(region, images[idx]) # None
    /\ Assign(choose_rect(region, images[idx]))

\* lines 152-155: neither orientation fits; idx stays at the image that failed
CannotFit ==
    /\ pc = "place"
    /\ idx <= Len(images)
    /\ choose_rect(region, images[idx]) = None
    /\ incomplete' = TRUE
    /\ pc' = "check"
    /\ UNCHANGED <<images, max_W, total_area, output_W, output_H, region,
                   idx, transposed, attempts, removed>>

\* line 141: the for loop is exhausted
EndFor ==
    /\ pc = "place"
    /\ idx > Len(images)
    /\ pc' = "check"
    /\ UNCHANGED <<images, max_W, total_area, output_W, output_H, region,
                   incomplete, idx, transposed, attempts, removed>>

\* mutant of Retry: the retry always doubles the width
Retry_doubles_W ==
    /\ pc = "check"
    /\ incomplete
    /\ output_W * 2 <= MaxSide
    /\ output_W' = output_W * 2
    /\ pc' = "attempt"
    /\ UNCHANGED <<images, max_W, total_area, output_H, region, incomplete,
                   idx, transposed, attempts, removed>>

\* whether a side of the canvas is beyond the limit
ExceedsLimit(canvas, limit) == canvas[1] > limit \/ canvas[2] > limit

\* a limit on the canvas side that leaves room for every single image and
\* that the retry loop goes beyond on some of the inputs
LimitTried == 2 * MaxDim

\* mutant of Retry: growth beyond the limit stops the packer with an error
Retry_stops_at_limit ==
    /\ pc = "check"
    /\ incomplete
    /\ IF ExceedsLimit(grown(output_W, output_H), LimitTried)
       THEN /\ pc' = "error"
            /\ UNCHANGED <<output_W, output_H>>
       ELSE /\ output_W' = grown(output_W, output_H)[1]
            /\ output_H' = grown(output_W, output_H)[2]
            /\ pc' = "attempt"
    /\ UNCHANGED <<images, max_W, total_area, region, incomplete, idx,
                   transposed, attempts, removed>>

\* lines 156-160: grow the canvas and try again
Retry ==
    /\ pc = "check"
    /\ incomplete
    /\ grown(output_W, output_H)[1] <= MaxSide
    /\ grown(output_W, output_H)[2] <= MaxSide
    /\ output_W' = grown(output_W, output_H)[1]
    /\ output_H' = grown(output_W, output_H)[2]
    /\ pc' = "attempt"
    /\ UNCHANGED <<images, max_W, total_area, region, incomplete, idx,
                   transposed, attempts, removed>>

\* lines 161-162: the attempt was complete
Complete ==
    /\ pc = "check"
    /\ ~incomplete
    /\ pc' = "output"
    /\ UNCHANGED <<images, max_W, total_area, output_W, output_H, region,
                   incomplete, idx, transposed, attempts, removed>>

\* lines 168-185: the transposed flag of every image
WriteOutput ==
    /\ pc = "output"
    /\ transposed' = [i \in 1..Len(images) |-> is_transposed(images[i])]
    /\ pc' = "done"
    /\ UNCHANGED <<images, max_W, total_area, output_W, output_H, region,
                   incomplete, idx, attempts, removed>>

Next ==
    \/ Measure
    \/ MeasureFails
    \/ GrowToMaxW
    \/ EndGrowToMaxW
    \/ GrowToArea
    \/ EndGrowToArea
    \/ NewAttempt
    \/ PlaceEmpty
    \/ PlaceFit
    \/ PlaceSwapped
    \/ CannotFit
    \/ EndFor
    \/ Retry
    \/ Complete
    \/ WriteOutput

Spec == Init /\ [][Next]_vars

\* main() is sequential code: it keeps running until it returns or raises
FairSpec == InitFair /\ [][Next]_vars /\ WF_vars(Next)

SpecLegal == InitLegal /\ [][Next]_vars

SpecScenario == InitScenario /\ [][Next]_vars

---------------------------------------------------------------------------
(* Region alone: remove_rect calls with arbitrary rects on one root *)

\* every Rect (x1 <= x2, y1 <= y2) inside the rect r
RectsIn(r) ==
    {q \in (r[1]..r[3]) \X (r[2]..r[4]) \X (r[1]..r[3]) \X (r[2]..r[4]) :
        q[1] <= q[3] /\ q[2] <= q[4]}

InitRegion ==
    /\ pc = "region"
    /\ region \in {Region(Rect(0, 0, w, h)) :
                      w \in 1..RegionSide, h \in 1..RegionSide}
    /\ removed = <<>>
    /\ images = <<>>
    /\ max_W = 0
    /\ total_area = 0
    /\ output_W = 0
    /\ output_H = 0
    /\ incomplete = FALSE
    /\ idx = 0
    /\ transposed = <<>>
    /\ attempts = <<>>

\* region.remove_rect(rect) on the root
RemoveRect ==
    /\ pc = "region"
    /\ Len(removed) < MaxRemoves
    /\ \E rect \in RectsIn(region.rect) :
          /\ region' = remove_rect(region, rect)
          /\ removed' = Append(removed, rect)
    /\ UNCHANGED <<pc, images, max_W, total_area, output_W, output_H,
                   incomplete, idx, transposed, attempts>>

NextRegion == RemoveRect

SpecRegion == InitRegion /\ [][NextRegion]_vars

---------------------------------------------------------------------------
(* One leaf: a single remove_rect call on a leaf Region, the rect inside it *)

\* every Rect of positive width and height inside the rect r
LeafRectsIn(r) == {q \in RectsIn(r) : q[1] < q[3] /\ q[2] < q[4]}

InitLeaf ==
    /\ pc = "leaf"
    /\ region \in {Region(R) : R \in LeafRectsIn(Rect(0, 0, LeafSide, LeafSide))}
    /\ removed = <<>>
    /\ images = <<>>
    /\ max_W = 0
    /\ total_area = 0
    /\ output_W = 0
    /\ output_H = 0
    /\ incomplete = FALSE
    /\ idx = 0
    /\ transposed = <<>>
    /\ attempts = <<>>

\* leaf.remove_rect(rect), rect inside the leaf's rect
SplitLeaf ==
    /\ pc = "leaf"
    /\ removed = <<>>
    /\ \E rect \in RectsIn(region.rect) :
          /\ region' = remove_rect(region, rect)
          /\ removed' = <<rect>>
    /\ UNCHANGED <<pc, images, max_W, total_area, output_W, output_H,
                   incomplete, idx, transposed, attempts>>

NextLeaf == SplitLeaf

SpecLeaf == InitLeaf /\ [][NextLeaf]_vars

---------------------------------------------------------------------------
(* Definitions the properties are stated with *)

\* the retry loop of main has ended with a complete attempt
Finished == pc \in {"output", "done"}

\* the unit cells a rect covers
Cells(r) == (r[1]..(r[3] - 1)) \X (r[2]..(r[4] - 1))

IsNonZeroArea(im) == im.area > 0

---------------------------------------------------------------------------
(* C1 *)

\* C1: once the retry loop has ended, no two distinct entries have
\* overlapping assigned Rects (Rect.overlaps is false for every pair),
\* degenerate rects of zero-size entries included.
C1_NoOverlap ==
    Finished =>
        \A i \in 1..Len(images) : \A j \in 1..Len(images) :
            i # j => ~overlaps(images[i].rect, images[j].rect)

\* a finished packing of two entries with area and one of size (0, 0),
\* reached after a failed attempt
C1_Witness ==
    /\ pc = "done"
    /\ Len(images) = 3
    /\ Len(attempts) > 1
    /\ images[1].area > 0
    /\ images[2].area > 0
    /\ images[3].actual_size = <<0, 0>>

---------------------------------------------------------------------------
(* C2 *)

\* C2 as stated: for every entry with nonzero area in a finished packing the
\* Rect's size is (longer, shorter) and the transposed flag is false, or it
\* is (shorter, longer) and the flag is true.
C2_Original ==
    pc = "done" =>
        \A i \in 1..Len(images) :
            IsNonZeroArea(images[i]) =>
                \/ /\ size(images[i].rect) = images[i].actual_size
                   /\ ~transposed[i]
                \/ /\ size(images[i].rect) = <<images[i].actual_size[2],
                                               images[i].actual_size[1]>>
                   /\ transposed[i]

\* C2 amended: for every entry with nonzero area in a finished packing the
\* Rect's size is (longer, shorter) or (shorter, longer); the transposed flag
\* is relative to the image's own clipped (width, height): an image at least
\* as wide as high is flagged exactly when its Rect is higher than wide, an
\* image higher than wide exactly when its Rect is wider than high, and a
\* square image never.
C2_Amended ==
    pc = "done" =>
        \A i \in 1..Len(images) :
            IsNonZeroArea(images[i]) =>
                LET w  == images[i].size[1]
                    h  == images[i].size[2]
                    rw == size(images[i].rect)[1]
                    rh == size(images[i].rect)[2]
                IN  /\ \/ <<rw, rh>> = images[i].actual_size
                       \/ <<rw, rh>> = <<images[i].actual_size[2],
                                         images[i].actual_size[1]>>
                    /\ w > h => (transposed[i] <=> rh > rw)
                    /\ w < h => (transposed[i] <=> rw > rh)
                    /\ w = h => ~transposed[i]

\* a finished packing in which an image higher than wide was placed as
\* (longer, shorter) and flagged, and an image wider than high was placed as
\* (shorter, longer) and flagged
C2_Witness ==
    /\ pc = "done"
    /\ \E i \in 1..Len(images) :
          /\ images[i].size[1] < images[i].size[2]
          /\ size(images[i].rect) = images[i].actual_size
          /\ transposed[i]
    /\ \E i \in 1..Len(images) :
          /\ images[i].size[1] > images[i].size[2]
          /\ size(images[i].rect) # images[i].actual_size
          /\ transposed[i]

---------------------------------------------------------------------------
(* C3 *)

\* the powers of two up to the largest canvas side
Pow2 == {2^k : k \in 0..10} \cap 1..MaxSide

IsPow2(n) == n \in Pow2

RECURSIVE CanPlaceFrom(_, _, _, _, _)

\* some placement of the entries i.. of list inside W x H, each in one of
\* its two orientations, overlaps neither another nor a rect of placed
CanPlaceFrom(list, i, placed, W, H) ==
    IF i > Len(list) THEN TRUE
    ELSE \E o \in {list[i].actual_size,
                   <<list[i].actual_size[2], list[i].actual_size[1]>>} :
         \E x \in 0..(W - o[1]) : \E y \in 0..(H - o[2]) :
            LET r == Rect(x, y, x + o[1], y + o[2])
            IN  /\ \A q \in placed : ~overlaps(q, r)
                /\ CanPlaceFrom(list, i + 1, placed \cup {r}, W, H)

\* the canvas W x H admits a non-overlapping placement of all entries
CanPlaceAll(list, W, H) == CanPlaceFrom(list, 1, {}, W, H)

RECURSIVE nth_grown(_, _)

\* the canvas after n growth steps
nth_grown(canvas, n) ==
    IF n = 0 THEN canvas
    ELSE LET c == nth_grown(canvas, n - 1) IN grown(c[1], c[2])

\* C3 as stated: no canvas with power-of-two sides and a smaller area than
\* the final W*H admits a non-overlapping placement of all entries.
C3_Original ==
    Finished =>
        \A w \in Pow2 : \A h \in Pow2 :
            w * h < output_W * output_H => ~CanPlaceAll(images, w, h)

\* C3 amended: the final canvas is the first canvas, in the sequence that
\* starts at the canvas of the sizing phase and applies the growth step,
\* on which the first-fit attempt places every entry; every canvas
\* before it in that sequence fails under first-fit placement.
C3_Amended ==
    Finished =>
        LET n == Len(attempts)
        IN  /\ n >= 1
            /\ attempts[n] = <<output_W, output_H>>
            /\ \A k \in 1..n : attempts[k] = nth_grown(attempts[1], k - 1)
            /\ FreshAttempt(images, output_W, output_H).complete
            /\ \A k \in 1..(n - 1) :
                  ~FreshAttempt(images, attempts[k][1], attempts[k][2]).complete

\* a finished packing, reached after a failed attempt, of entries with area
\* that a canvas of half the area can hold
C3_Witness ==
    /\ Finished
    /\ Len(attempts) > 1
    /\ \A i \in 1..Len(images) : images[i].area > 0
    /\ \E w \in Pow2 : \E h \in Pow2 :
          /\ w * h * 2 = output_W * output_H
          /\ CanPlaceAll(images, w, h)

---------------------------------------------------------------------------
(* C5 *)

\* C5: from the end of the sizing phase on, through the retry loop and in
\* the final result, W and H are positive powers of two and W*H is at least
\* the sum of the entry areas.
C5_CanvasPow2AndArea ==
    pc \in {"attempt", "place", "check", "output", "done"} =>
        /\ IsPow2(output_W)
        /\ IsPow2(output_H)
        /\ output_W > 0
        /\ output_H > 0
        /\ output_W * output_H >= sum_area(images, Len(images))

\* the canvas of a retry: both sides were doubled during sizing and once
\* more after a failed attempt
C5_Witness ==
    /\ pc = "attempt"
    /\ Len(attempts) >= 1
    /\ output_W > 1
    /\ output_H > 1
    /\ output_W * output_H > sum_area(images, Len(images))

---------------------------------------------------------------------------
(* C4 *)

\* the image at position i made the current attempt incomplete
FailedAt(i) == pc = "check" /\ incomplete /\ idx = i

---------------------------------------------------------------------------
(* C6 *)

\* C6: for every non-empty list of entries the grow-and-retry loop reaches a
\* complete attempt and main ends.
C6_Terminates == (images # <<>>) ~> (pc = "done")

\* main has ended after at least one failed attempt
C6_Witness == pc = "done" /\ Len(attempts) > 1

---------------------------------------------------------------------------
(* C7 *)

\* the worked example: images 100x100, 50x50 and one with no opaque pixel
IsExample ==
    /\ Len(images) = 3
    /\ images[1].size = <<100, 100>>
    /\ images[2].size = <<50, 50>>
    /\ images[3].size = <<0, 0>>

\* C7 as stated: the example ends with the canvas (128, 128), the first
\* entry at (0, 0, 100, 100), the second inside the canvas clear of the
\* first, and the third at (0, 0, 0, 0).
C7_Original ==
    (IsExample /\ pc = "done") =>
        /\ <<output_W, output_H>> = <<128, 128>>
        /\ images[1].rect = Rect(0, 0, 100, 100)
        /\ size(images[2].rect) = <<50, 50>>
        /\ ~overlaps(images[1].rect, images[2].rect)
        /\ images[3].rect = Rect(0, 0, 0, 0)

\* C7 amended: the attempt on (128, 128) is incomplete, for the 50x50 entry
\* fits neither strip left by the first; the example ends with the canvas
\* (256, 128), the first entry at (0, 0, 100, 100), the second at
\* (100, 0, 150, 50) and the third at (0, 0, 0, 0).
C7_Amended ==
    /\ (IsExample /\ pc = "check" /\ <<output_W, output_H>> = <<128, 128>>)
          => FailedAt(2)
    /\ (IsExample /\ pc = "done") =>
          /\ attempts = << <<128, 128>>, <<256, 128>> >>
          /\ <<output_W, output_H>> = <<256, 128>>
          /\ images[1].rect = Rect(0, 0, 100, 100)
          /\ images[2].rect = Rect(100, 0, 150, 50)
          /\ images[3].rect = Rect(0, 0, 0, 0)
          /\ transposed = <<FALSE, FALSE, FALSE>>

\* main has ended on the example
C7_Witness == IsExample /\ pc = "done"

---------------------------------------------------------------------------
(* C9 *)

\* C9: when the retry loop has ended, the rects of the entries are those of
\* one attempt started from a fresh Region over the final canvas, and that
\* attempt places every entry.
C9_ResultOfOneFreshAttempt ==
    Finished =>
        LET a == FreshAttempt(images, output_W, output_H)
        IN  /\ a.complete
            /\ Len(a.rects) = Len(images)
            /\ \A i \in 1..Len(images) : images[i].rect = a.rects[i]
            /\ attempts[Len(attempts)] = <<output_W, output_H>>

\* a finished packing whose failed first attempt had given the second entry
\* a rect other than its final one
C9_Witness ==
    /\ Finished
    /\ Len(attempts) > 1
    /\ Len(images) >= 2
    /\ LET a == FreshAttempt(images, attempts[1][1], attempts[1][2])
       IN  /\ Len(a.rects) >= 2
           /\ a.rects[2] # images[2].rect

---------------------------------------------------------------------------
(* C10 *)

\* C10: in every finished packing each assigned Rect lies inside the final
\* canvas: 0 <= x1 <= x2 <= W and 0 <= y1 <= y2 <= H.
C10_InsideCanvas ==
    Finished =>
        \A i \in 1..Len(images) :
            LET r == images[i].rect
            IN  /\ 0 <= r[1] /\ r[1] <= r[3] /\ r[3] <= output_W
                /\ 0 <= r[2] /\ r[2] <= r[4] /\ r[4] <= output_H

\* a finished packing with a rect that reaches the right edge and a rect that
\* reaches the bottom edge of the canvas
C10_Witness ==
    /\ Finished
    /\ \E i \in 1..Len(images) : images[i].rect[3] = output_W
    /\ \E i \in 1..Len(images) : images[i].rect[4] = output_H

---------------------------------------------------------------------------
(* C8 *)

RECURSIVE Leaves(_)

\* the leaves (children is None) of the tree under a node
Leaves(node) ==
    IF node.children = None THEN {node}
    ELSE UNION {Leaves(node.children[1][k]) :
                   k \in 1..Len(node.children[1])}

\* the cells covered by the children of an internal node
ChildCells(node) ==
    UNION {Cells(node.children[1][k].rect) : k \in 1..Len(node.children[1])}

\* remove_rect(r) on the leaf, r inside the leaf's rect R, leaves children
\* whose union is R minus r and of which none overlaps r; a rect r of zero
\* area removes nothing and the leaf stays a leaf
SplitExact(leaf, r, after) ==
    IF after.children = None
    THEN Cells(r) = {} /\ after = leaf
    ELSE /\ ChildCells(after) = Cells(leaf.rect) \ Cells(r)
         /\ \A k \in 1..Len(after.children[1]) :
               /\ ~overlaps(after.children[1][k].rect, r)
               /\ after.children[1][k].children = None

\* C8: for a leaf Region with rect R and a rect r inside R, after
\* remove_rect(r) the union of the children's rects is R minus r exactly and
\* no child overlaps r: observed on the leaf after the call, and for
\* remove_rect applied to every leaf of every tree reached.
C8_LeafSplitExact ==
    /\ Len(removed) = 1 =>
          SplitExact(Region(region.rect), removed[1], region)
    /\ \A leaf \in Leaves(region) : \A r \in RectsIn(leaf.rect) :
          SplitExact(leaf, r, remove_rect(leaf, r))

\* a leaf away from the origin was split by a rect in its interior into the
\* four strips above, left of, right of and below the rect
C8_Witness ==
    /\ Len(removed) = 1
    /\ region.rect[1] > 0
    /\ region.rect[2] > 0
    /\ region.children # None
    /\ Len(region.children[1]) = 4

---------------------------------------------------------------------------
(* C11 *)

\* the input is the single image of size 3 x 3
IsSingle3x3 == Len(images) = 1 /\ images[1].size = <<3, 3>>

\* C11: for the single entry (3, 3, 9) the canvas grows from (1, 1) through
\* (2, 1), (4, 1) and (4, 2) to the final (4, 4), the only attempt is the one
\* on the 4 x 4 canvas, and the entry is placed at (0, 0, 3, 3) with
\* transposed = false.
C11_Single3x3 ==
    IsSingle3x3 =>
       /\ pc = "size_w" =>
             <<output_W, output_H>> \in {<<1, 1>>, <<2, 1>>, <<4, 1>>}
       /\ pc = "size_area" =>
             <<output_W, output_H>> \in {<<4, 1>>, <<4, 2>>, <<4, 4>>}
       /\ pc \in {"attempt", "place", "check", "output", "done"} =>
             <<output_W, output_H>> = <<4, 4>>
       /\ pc \in {"place", "check", "output", "done"} =>
             attempts = << <<4, 4>> >>
       /\ pc \in {"check", "output", "done"} =>
             /\ ~incomplete
             /\ images[1].rect = Rect(0, 0, 3, 3)
       /\ pc = "done" => transposed = <<FALSE>>

\* the packer has finished on the single 3 x 3 image
C11_Witness ==
    /\ IsSingle3x3
    /\ pc = "done"
    /\ <<output_W, output_H>> = <<4, 4>>
    /\ images[1].rect = Rect(0, 0, 3, 3)

---------------------------------------------------------------------------
(* C12 *)

\* C12 as the spec states it, for the limit LimitTried: when the growth step
\* after an incomplete attempt takes the canvas beyond the limit, the packer
\* stops with an error instead of trying again.  The code names no limit; a
\* limit L that holds makes every larger one hold, so the step that refutes
\* LimitTried refutes every smaller limit too.
C12_Original ==
    [][(pc = "check" /\ incomplete
          /\ ExceedsLimit(grown(output_W, output_H), LimitTried))
       => pc' = "error"]_vars

\* C12, amended: the retry loop has no safety limit and no sizing error.
\* After every incomplete attempt the growth step is possible and was taken
\* (each attempt's canvas is the grown canvas of the attempt before it), and
\* the only way the packer fails is the empty image list.
C12_Amended ==
    /\ pc = "error" => images = <<>>
    /\ (pc = "check" /\ incomplete) => ENABLED Retry
    /\ \A k \in 1..(Len(attempts) - 1) :
          attempts[k + 1] = grown(attempts[k][1], attempts[k][2])

\* an incomplete attempt was followed by an attempt on a canvas beyond the
\* limit, and that attempt was complete
C12_Witness ==
    /\ pc = "done"
    /\ Len(attempts) >= 2
    /\ ~ExceedsLimit(attempts[Len(attempts) - 1], LimitTried)
    /\ ExceedsLimit(attempts[Len(attempts)], LimitTried)

---------------------------------------------------------------------------
(* C13 *)

RECURSIVE Nodes(_)

\* every node of the tree under a node, the node itself included
Nodes(node) ==
    IF node.children = None THEN {node}
    ELSE {node} \cup UNION {Nodes(node.children[1][k]) :
                               k \in 1..Len(node.children[1])}

\* the internal nodes of the Region tree
InternalNodes == {n \in Nodes(region) : n.children # None}

\* rect a lies inside rect b
Inside(a, b) == b[1] <= a[1] /\ b[2] <= a[2] /\ a[3] <= b[3] /\ a[4] <= b[4]

\* rect c is a strip of rect p: as wide as p and touching its top or its
\* bottom, or as high as p and touching its left or its right
IsStrip(c, p) ==
    \/ c[1] = p[1] /\ c[3] = p[3] /\ (c[2] = p[2] \/ c[4] = p[4])
    \/ c[2] = p[2] /\ c[4] = p[4] /\ (c[1] = p[1] \/ c[3] = p[3])

\* the rects removed from the Region in the attempt that is running
PlacedNow ==
    IF pc \in {"place", "check", "output", "done"}
    THEN {images[i].rect : i \in 1..(idx - 1)}
    ELSE {}

\* C13 as the spec states it: the children of every internal node are
\* pairwise non-overlapping.
C13_Original ==
    \A n \in InternalNodes :
       \A i, j \in 1..Len(n.children[1]) :
          i # j => ~overlaps(n.children[1][i].rect, n.children[1][j].rect)

\* C13, amended: the remainders of Rect.split can overlap each other.  Each
\* child of an internal node is a strip of the node's rect that runs its
\* full width or its full height (so a strip above or below shares a corner
\* with a strip left or right), siblings have different rects, and no leaf
\* overlaps a rect removed in the running attempt.
C13_Amended ==
    /\ \A n \in InternalNodes :
          \A i \in 1..Len(n.children[1]) :
             /\ Inside(n.children[1][i].rect, n.rect)
             /\ IsStrip(n.children[1][i].rect, n.rect)
             /\ \A j \in 1..Len(n.children[1]) :
                   i # j => n.children[1][i].rect # n.children[1][j].rect
    /\ \A leaf \in Leaves(region) : \A r \in PlacedNow :
          ~overlaps(leaf.rect, r)

\* two children of one node overlap while images are being placed
C13_Witness ==
    /\ pc = "place"
    /\ idx > 1
    /\ \E n \in InternalNodes :
          \E i, j \in 1..Len(n.children[1]) :
             /\ i < j
             /\ overlaps(n.children[1][i].rect, n.children[1][j].rect)

---------------------------------------------------------------------------
(* C14 *)

\* the free space of a tree: the cells covered by the rects of its leaves
FreeCells(node) == UNION {Cells(leaf.rect) : leaf \in Leaves(node)}

\* the cells covered by the rects removed so far
RemovedCells == UNION {Cells(removed[k]) : k \in 1..Len(removed)}

\* C14: after any sequence of remove_rect calls on a Region root, the rects
\* inside the canvas, the union of the leaves' rects is the root rect minus
\* the union of the removed rects, and no leaf overlaps a removed rect.  The
\* sequence before each call is itself such a sequence, so the call for
\* rect takes from the free space the cells of rect that were free, no more
\* and no fewer.
C14_FreeSpaceExact ==
    pc = "region" =>
       /\ FreeCells(region) = Cells(region.rect) \ RemovedCells
       /\ \A leaf \in Leaves(region) : \A k \in 1..Len(removed) :
             ~overlaps(leaf.rect, removed[k])

\* a second rect was removed that straddles two children of the root, both
\* of them split by it, and free space is left
C14_Witness ==
    /\ pc = "region"
    /\ Len(removed) = 2
    /\ region.children # None
    /\ Cardinality({k \in 1..Len(region.children[1]) :
                       region.children[1][k].children # None}) >= 2
    /\ FreeCells(region) # {}

---------------------------------------------------------------------------
(* C15 *)

RECURSIVE SubSeqOf(_, _, _, _)

\* whether the rects of new[i..] appear, in order, among the rects of
\* old[j..]: the children kept by a remove_rect call keep their order
SubSeqOf(new, i, old, j) ==
    IF i > Len(new) THEN TRUE
    ELSE IF j > Len(old) THEN FALSE
    ELSE IF new[i].rect = old[j].rect
         THEN SubSeqOf(new, i + 1, old, j + 1)
         ELSE SubSeqOf(new, i, old, j + 1)

RECURSIVE Forward(_, _, _)

\* one remove_rect(rect) call took the node `old` to the node `new`: the
\* rect of the node is kept; an internal node stays internal and its
\* children are children it had before, each moved forward in turn; a leaf
\* becomes internal only if rect overlaps it, and its children are leaves
Forward(old, new, rect) ==
    /\ new.rect = old.rect
    /\ IF old.children = None
       THEN IF new.children = None THEN TRUE
            ELSE /\ overlaps(old.rect, rect)
                 /\ \A k \in 1..Len(new.children[1]) :
                       new.children[1][k].children = None
       ELSE /\ new.children # None
            /\ Len(new.children[1]) <= Len(old.children[1])
            /\ SubSeqOf(new.children[1], 1, old.children[1], 1)
            /\ \A k \in 1..Len(new.children[1]) :
                  \E j \in 1..Len(old.children[1]) :
                     /\ old.children[1][j].rect = new.children[1][k].rect
                     /\ Forward(old.children[1][j], new.children[1][k], rect)

\* no node below the root is internal with an empty child list
NoEmptyBelowRoot == \A n \in Nodes(region) : is_empty(n) => n = region

\* C15: across every remove_rect call on the root, every node only moves
\* forward: an internal node stays internal and gains no child, a leaf
\* becomes internal only if the rect of the call overlaps it, and after the
\* call no node other than the root is empty.
C15_NodesMoveForward ==
    [][(pc = "region" /\ removed' # removed) =>
          /\ Forward(region, region', removed'[Len(removed')])
          /\ NoEmptyBelowRoot']_vars

\* the first call left the root two children; the second call has pruned
\* one of them and split the other
C15_Witness ==
    /\ pc = "region"
    /\ region.rect = Rect(0, 0, 2, 2)
    /\ Len(removed) = 2
    /\ removed[1] = Rect(0, 0, 1, 1)
    /\ region.children # None
    /\ Len(region.children[1]) = 1
    /\ region.children[1][1].children # None

---------------------------------------------------------------------------
(* C16 *)

RECURSIVE LeavesSeq(_)
RECURSIVE LeavesSeqFrom(_, _)

\* the leaves under the children from child i on, in child list order
LeavesSeqFrom(children, i) ==
    IF i > Len(children) THEN <<>>
    ELSE LeavesSeq(children[i]) \o LeavesSeqFrom(children, i + 1)

\* the leaves of the tree under a node in depth-first order
LeavesSeq(node) ==
    IF node.children = None THEN <<node>>
    ELSE LeavesSeqFrom(node.children[1], 1)

\* the leaves of a sequence whose rect fits (W, H), in the same order
Fitting(leaves, W, H) ==
    SelectSeq(leaves, LAMBDA leaf : fits(leaf.rect, W, H))

\* first fit over a sequence of leaves: the W x H rect at the top-left
\* corner of the first leaf that fits, None if no leaf fits
FirstFit(leaves, W, H) ==
    LET fit == Fitting(leaves, W, H)
    IN  IF fit = <<>> THEN None
        ELSE Rect(fit[1].rect[1], fit[1].rect[2],
                  fit[1].rect[1] + W, fit[1].rect[2] + H)

\* the sizes find_fit is asked for
FitSizes == 0..MaxDim

\* C16: on every tree the packer builds and for every size (W, H), find_fit
\* returns the W x H rect at the top-left corner of the first leaf, in
\* depth-first order along the child lists, whose rect fits (W, H), and None
\* when no leaf fits.
C16_FirstFit ==
    \A W, H \in FitSizes :
       find_fit(region, W, H) = FirstFit(LeavesSeq(region), W, H)

\* an image is about to be placed for which the first leaf of the tree does
\* not fit and two later leaves at different corners do
C16_Witness ==
    /\ pc = "place"
    /\ idx <= Len(images)
    /\ LET W == images[idx].actual_size[1]
           H == images[idx].actual_size[2]
           leaves == LeavesSeq(region)
           fit == Fitting(leaves, W, H)
       IN  /\ Len(leaves) >= 3
           /\ ~fits(leaves[1].rect, W, H)
           /\ Len(fit) >= 2
           /\ <<fit[1].rect[1], fit[1].rect[2]>> #
                 <<fit[2].rect[1], fit[2].rect[2]>>

---------------------------------------------------------------------------
(* C17 *)

\* the (area, actual_size) key of a is not below the key of b
KeyAtLeast(a, b) ==
    \/ a.area > b.area
    \/ /\ a.area = b.area
       /\ \/ a.actual_size[1] > b.actual_size[1]
          \/ /\ a.actual_size[1] = b.actual_size[1]
             /\ a.actual_size[2] >= b.actual_size[2]

\* the list is in descending (area, actual_size) order
SortedDescending ==
    \A i, j \in 1..Len(images) : i < j => KeyAtLeast(images[i], images[j])

\* the entry at idx, of nonzero size, is offered to the tree: it gets the
\* rect of find_fit(longer, shorter) if that succeeds, the rect of
\* find_fit(shorter, longer) only if the first call failed, and the attempt
\* is aborted as incomplete only if both failed; the next entry offered is
\* the next of the list
OfferedLongerFirst ==
    LET L == images[idx].actual_size[1]
        S == images[idx].actual_size[2]
        first == find_fit(region, L, S)
        second == find_fit(region, S, L)
        placed(rect) ==
            /\ images'[idx].rect = rect
            /\ region' = remove_rect(region, rect)
            /\ idx' = idx + 1
            /\ pc' = "place"
            /\ incomplete' = FALSE
    IN  IF first # None THEN placed(first)
        ELSE IF second # None THEN placed(second)
        ELSE /\ incomplete' = TRUE
             /\ pc' = "check"
             /\ idx' = idx
             /\ region' = region

\* C17: in every attempt every entry of nonzero size is offered in the
\* (longer, shorter) orientation first and in the swapped orientation only
\* if that failed on the tree as it stands, the attempt is aborted only if
\* both fail, and the entries are offered in list order, the list being in
\* descending (area, actual_size) order from the sort on.
C17_LongerFirstInSortedOrder ==
    /\ [](pc # "start" => SortedDescending)
    /\ [][(pc = "place" /\ idx <= Len(images)
             /\ images[idx].actual_size # <<0, 0>>) => OfferedLongerFirst]_vars
    /\ [][(pc = "attempt") => idx' = 1]_vars
    /\ [][incomplete' /\ ~incomplete =>
             /\ pc = "place"
             /\ find_fit(region, images[idx].actual_size[1],
                         images[idx].actual_size[2]) = None
             /\ find_fit(region, images[idx].actual_size[2],
                         images[idx].actual_size[1]) = None]_vars

\* an entry was placed in the swapped orientation after an entry of larger
\* key was placed in the (longer, shorter) orientation
C17_Witness ==
    /\ pc = "place"
    /\ idx = 3
    /\ images[1].area > images[2].area
    /\ size(images[1].rect) = images[1].actual_size
    /\ images[2].actual_size[1] # images[2].actual_size[2]
    /\ size(images[2].rect) =
          <<images[2].actual_size[2], images[2].actual_size[1]>>
    /\ find_fit(region, images[2].actual_size[1],
                images[2].actual_size[2]) = None

---------------------------------------------------------------------------
(* C18 *)

\* the canvas size
Canvas == <<output_W, output_H>>

\* the largest longer dimension of the images
LargestLonger ==
    CHOOSE m \in {Max(images[i].size[1], images[i].size[2]) :
                     i \in 1..Len(images)} :
       \A i \in 1..Len(images) :
          m >= Max(images[i].size[1], images[i].size[2])

\* the smallest power of two that is at least n
SmallestPow2AtLeast(n) ==
    CHOOSE p \in Pow2 : p >= n /\ \A q \in Pow2 : q >= n => p <= q

\* one growth step of the sizing rule: W doubles when W <= H, else H doubles
OneDoubling(before, after) ==
    IF before[1] <= before[2]
    THEN after = <<2 * before[1], before[2]>>
    ELSE after = <<before[1], 2 * before[2]>>

\* C18: the first sizing loop leaves W the smallest power of two that is at
\* least max(1, largest longer dimension) and H = 1; from there on the
\* canvas changes only by growth steps that double W when W <= H and H
\* otherwise; an incomplete attempt is followed by exactly one such step and
\* then the next attempt, a complete attempt by none.
C18_OneSizingRule ==
    /\ [][(pc = "size_w" /\ pc' = "size_area") =>
             /\ output_W' = SmallestPow2AtLeast(Max(1, LargestLonger))
             /\ output_H' = 1]_vars
    /\ [][(pc = "size_area" /\ Canvas' # Canvas)
             => /\ output_W * output_H < total_area
                /\ OneDoubling(Canvas, Canvas')
          ]_vars
    /\ [][(pc = "check" /\ incomplete) =>
             /\ OneDoubling(Canvas, Canvas')
             /\ pc' = "attempt"]_vars
    /\ [][(pc = "check" /\ ~incomplete) =>
             /\ Canvas' = Canvas
             /\ pc' = "output"]_vars
    /\ [][(pc \in {"attempt", "place", "output", "done"}) =>
             Canvas' = Canvas]_vars
    /\ [](\A k \in 1..(Len(attempts) - 1) :
             OneDoubling(attempts[k], attempts[k + 1]))

\* the packer has finished after growth of both sides in the sizing loops
\* and one incomplete attempt on a square canvas, followed by a doubling of W
C18_Witness ==
    /\ pc = "done"
    /\ Len(attempts) = 2
    /\ attempts[1][1] = attempts[1][2]
    /\ attempts[1][2] > 1
    /\ Canvas = <<2 * attempts[1][1], attempts[1][2]>>

---------------------------------------------------------------------------
(* C19 *)

\* the leaf's rect is at least W wide and H high
Holds(leaf, W, H) ==
    leaf.rect[3] - leaf.rect[1] >= W /\ leaf.rect[4] - leaf.rect[2] >= H

\* C19: on every tree the packer builds, find_fit(W, H) returns None only if
\* no leaf of the tree is at least W wide and H high; so when an attempt is
\* declared incomplete, no leaf can hold the entry that failed in either
\* orientation.
C19_FindFitComplete ==
    /\ pc \in {"place", "check", "attempt", "output", "done"} =>
          \A W, H \in FitSizes :
             find_fit(region, W, H) = None =>
                \A leaf \in Leaves(region) : ~Holds(leaf, W, H)
    /\ (pc = "check" /\ incomplete) =>
          \A leaf \in Leaves(region) :
             /\ ~Holds(leaf, images[idx].actual_size[1],
                       images[idx].actual_size[2])
             /\ ~Holds(leaf, images[idx].actual_size[2],
                       images[idx].actual_size[1])

\* an attempt is incomplete although the free cells outnumber the cells of
\* the entry that failed: the free space is there, but in no single leaf
C19_Witness ==
    /\ pc = "check"
    /\ incomplete
    /\ Len(LeavesSeq(region)) >= 2
    /\ Cardinality(FreeCells(region)) > images[idx].area

---------------------------------------------------------------------------
(* C20 *)

\* C20: with an empty image list the packer goes from its start to the
\* failure of max() and nowhere else: no canvas size has been assigned, no
\* attempt has started, no Region has been built and nothing has been
\* written; and the packer fails in no other case.
C20_EmptyListFails ==
    /\ images = <<>> =>
          /\ pc \in {"start", "error"}
          /\ output_W = 0
          /\ output_H = 0
          /\ max_W = 0
          /\ total_area = 0
          /\ attempts = <<>>
          /\ region = Region(Rect(0, 0, 0, 0))
          /\ transposed = <<>>
    /\ pc = "error" => images = <<>>

\* the packer has failed on the empty list
C20_Witness == pc = "error" /\ images = <<>> /\ output_W = 0

============================================================================
